---- MODULE Spec2Model ----
(***************************************************************************)
(* Deduplicated-insert worker (src/src/index.ts): the fetch handler and    *)
(* processBatch, with the embedding provider (env.AI) and the pgvector     *)
(* table (dbClient) as the environment.                                    *)
(*                                                                         *)
(* One action is one resumption of the async code: the synchronous code    *)
(* from the resolution (or rejection) of one `await` up to the next one.   *)
(* A batch is one invocation of fetch; its local variables are functions   *)
(* over Batches.                                                           *)
(*                                                                         *)
(* Numbers: similarity scores and thresholds are integers; the embedding   *)
(* vectors are the axis unit vectors of the plane, whose cosine            *)
(* similarities are exactly 1, 0 and -1.  A message carries message_id,    *)
(* content and platform_name; the other provenance fields of Message are   *)
(* copied exactly like platform_name and are left out.                     *)
(***************************************************************************)
EXTENDS Integers, Sequences, FiniteSets

\* ------------------------------------------------------------------ bounds

\* Longest messages array of a request.
MaxMsgs == 3

\* `embeddingBatchSize` (100 in the source), scaled so that a batch of MaxMsgs
\* messages spans more than one chunk.
embeddingBatchSize == 2

Batches == {1, 2}

\* ------------------------------------------------------------------ values

DEDUP_AUTH_TOKEN == "secret"

Contents == {"a", "A", "b"}

E1 == <<1, 0>>
E2 == <<0, 1>>
E3 == <<-1, 0>>
Vectors == {E1, E2, E3}

\* The embedding models the provider may run: a function from text to vector.
\* The first maps "a" and "A" to one vector, the second separates all three.
Models ==
    { [c \in Contents |-> CASE c = "a" -> E1 [] c = "A" -> E1 [] OTHER -> E2],
      [c \in Contents |-> CASE c = "a" -> E1 [] c = "A" -> E2 [] OTHER -> E3] }

Thresholds == -1 .. 2

\* ------------------------------------------------------------------ helpers

Min(a, b) == IF a < b THEN a ELSE b

Abs(a) == IF a < 0 THEN -a ELSE a

ToSet(s) == { s[k] : k \in 1 .. Len(s) }

SetMax(S) == CHOOSE x \in S : \A y \in S : y <= x

RECURSIVE Gcd(_, _)
Gcd(a, b) == IF b = 0 THEN a ELSE Gcd(b, a % b)

\* JavaScript's `a / b` on non-negative integers: a reduced fraction, or the
\* special values NaN (0 / 0) and Infinity (a / 0, a > 0).
NaN == [special |-> "NaN"]
Infinity == [special |-> "Infinity"]
Divide(a, b) ==
    IF b = 0
    THEN (IF a = 0 THEN NaN ELSE Infinity)
    ELSE [num |-> a \div Gcd(a, b), den |-> b \div Gcd(a, b)]

\* The number literal 0 of `insertion_rate: 0`.
Zero == [num |-> 0, den |-> 1]

\* !x for a field of a parsed JSON object: absent or the empty string.
Falsy(data, f) == f \notin DOMAIN data \/ data[f] = ""

\* ------------------------------------------------------------------ pgvector

Dot(u, v) == u[1] * v[1] + u[2] * v[2]

\* Euclidean norm, for axis vectors.
Norm(u) == Abs(u[1]) + Abs(u[2])

\* `embedding <=> q`: cosine distance.
CosineDistance(u, v) == 1 - (Dot(u, v) \div (Norm(u) * Norm(v)))

\* `1 - (embedding <=> q) as similarity_score`
SimilarityScore(u, v) == 1 - CosineDistance(u, v)

\* ------------------------------------------------------------------ requests

Message(k, c) == [message_id |-> k, content |-> c, platform_name |-> "p"]

\* The messages arrays: every sequence of at most MaxMsgs contents, the
\* message at position k carrying message_id k.
MessageLists ==
    UNION { { [k \in 1 .. n |-> Message(k, f[k])] : f \in [1 .. n -> Contents] }
            : n \in 0 .. MaxMsgs }

\* A JSON object is a record; an absent member is absent from its domain.
With(d, f, v) == [x \in DOMAIN d \cup {f} |-> IF x = f THEN v ELSE d[x]]
Without(d, f) == [x \in DOMAIN d \ {f} |-> d[x]]

Body(sub, thr, msgs) ==
    [table_name |-> "messages", job_id |-> "j1", topic |-> "t1",
     industry |-> "i1", subindustry |-> sub,
     similarity_search_score_threshold |-> thr, messages |-> msgs]

FilterBys ==
    { <<>>,
      <<"topic", "subindustry", "job_id">>,
      <<"industry", "bogus">> }

PlainBodies ==
    { Body(sub, thr, msgs) :
        sub \in {"", "s1"}, thr \in Thresholds, msgs \in MessageLists }

GoodBodies ==
    PlainBodies \cup { With(d, "filter_by", f) : d \in PlainBodies, f \in FilterBys }

Bearer(token) == <<"Bearer", token>>

Http(auth, method, body) == [authorization |-> auth, method |-> method, body |-> body]

Json(d) == [valid |-> TRUE, data |-> d]
InvalidJson == [valid |-> FALSE]

\* The value null, in a body and in a response.
Null == [null |-> TRUE]

\* A `messages` member that is a JSON object, not an array: arrays are
\* sequences here, and this value stands for every value Array.isArray refuses.
NotAnArray == <<[object |-> TRUE]>>

GoodRequests == { Http(Bearer(DEDUP_AUTH_TOKEN), "POST", Json(d)) : d \in GoodBodies }

\* Requests the handler turns away, built on one body: by one check, or by
\* several at once.
Body0 == Body("s1", 1, <<Message(1, "a")>>)
BadRequests ==
    { Http(h, m, b) :
        h \in {Bearer("wrong"), Bearer(DEDUP_AUTH_TOKEN)},
        m \in {"GET"},
        b \in {InvalidJson, Json(Without(Body0, "topic"))} }
    \cup { Http(Bearer("wrong"), "POST", InvalidJson),
           Http(<<>>, "POST", Json(Without(Body0, "job_id"))),
           Http(Bearer(DEDUP_AUTH_TOKEN), "POST", Json(Null)),
           Http(Bearer(DEDUP_AUTH_TOKEN), "POST", Json(With(Body0, "messages", NotAnArray))) }
    \cup
    { Http(h, "POST", Json(Body0)) :
        h \in {<<>>, <<"Basic", DEDUP_AUTH_TOKEN>>, Bearer("wrong")} }
    \cup { Http(Bearer(DEDUP_AUTH_TOKEN), "GET", Json(Body0)),
           Http(Bearer(DEDUP_AUTH_TOKEN), "POST", InvalidJson) }
    \cup { Http(Bearer(DEDUP_AUTH_TOKEN), "POST", Json(Without(Body0, f))) :
            f \in {"table_name", "similarity_search_score_threshold", "messages"} }
    \cup { Http(Bearer(DEDUP_AUTH_TOKEN), "POST", Json(With(Body0, f, ""))) :
            f \in {"job_id", "topic", "industry"} }

Requests == GoodRequests \cup BadRequests

\* ------------------------------------------------------------------ the table

Row(job, topic, industry, sub, content, vec) ==
    [job_id |-> job, message_id |-> 0, topic |-> topic, industry |-> industry,
     subindustry |-> sub, content |-> content, embedding |-> vec,
     similarity_search_score |-> 0, platform_name |-> "p"]

Old(vec) == Row("j0", "t1", "i1", "s1", "old", vec)

\* What the table may hold before the batch: rows of an earlier job with each
\* vector, and rows that differ from the requests in one filterable column.
InitStores ==
    { <<>> }
    \cup { <<Old(v)>> : v \in Vectors }
    \cup { <<Row("j0", "t2", "i1", "s1", "old", E1)>>,
           <<Row("j0", "t1", "i2", "s1", "old", E1)>>,
           <<Row("j0", "t1", "i1", "s2", "old", E1)>>,
           <<Row("j1", "t1", "i1", "s1", "old", E1)>>,
           <<Row("j0", "t2", "i1", "s1", "old", E1), Old(E2)>> }

\* ------------------------------------------------------------------ fetch

\* Array.isArray(data[f]); false for an absent member.
IsArray(data, f) == f \in DOMAIN data /\ data[f] # NotAnArray

\* The checks of fetch, in order; "ok" when the request reaches processBatch.
\* Reading a member of null throws, and the catch of fetch answers 500.
Validate(request) ==
    LET authHeader == request.authorization IN
    IF \/ authHeader = <<>>
       \/ authHeader[1] # "Bearer"
       \/ authHeader[2] # DEDUP_AUTH_TOKEN
    THEN [status |-> 401, message |-> "Unauthorized"]
    ELSE IF request.method # "POST"
    THEN [status |-> 405, message |-> "Method not allowed"]
    ELSE IF ~request.body.valid
    THEN [status |-> 400, message |-> "Invalid JSON"]
    ELSE LET data == request.body.data IN
         IF data = Null
         THEN [status |-> 500, message |-> "Internal server error"]
         ELSE IF \/ Falsy(data, "table_name")
                 \/ Falsy(data, "job_id")
                 \/ Falsy(data, "topic")
                 \/ Falsy(data, "industry")
                 \/ "similarity_search_score_threshold" \notin DOMAIN data
                 \/ ~IsArray(data, "messages")
         THEN [status |-> 400, message |-> "Missing required fields"]
         ELSE [status |-> 200, message |-> "ok"]

\* The operands of `||` exchanged: the default always wins.
ResolveFilterBy_DefaultFirst(data) == <<"topic", "subindustry">>

\* `data.filter_by || ["topic", "subindustry"]`: an array, even an empty one,
\* is truthy.
ResolveFilterBy(data) ==
    IF "filter_by" \in DOMAIN data THEN data.filter_by ELSE <<"topic", "subindustry">>

\* ------------------------------------------------------------------ processBatch, synchronous parts

\* Lower-casing, as a normalising comparison would apply it.
Lower(c) == IF c = "A" THEN "a" ELSE c

\* ExactDedup comparing normalised contents.
RECURSIVE ExactDedup_Normalised(_, _, _)
ExactDedup_Normalised(messages, contentSet, uniqueMessages) ==
    IF messages = <<>>
    THEN uniqueMessages
    ELSE LET msg == Head(messages) IN
         IF Lower(msg.content) \notin contentSet
         THEN ExactDedup_Normalised(Tail(messages), contentSet \cup {Lower(msg.content)},
                                    Append(uniqueMessages, msg))
         ELSE ExactDedup_Normalised(Tail(messages), contentSet, uniqueMessages)

\* ExactDedup keeping the last occurrence of each content instead of the first.
RECURSIVE ExactDedup_KeepLast(_, _, _)
ExactDedup_KeepLast(messages, contentSet, uniqueMessages) ==
    IF messages = <<>>
    THEN uniqueMessages
    ELSE LET msg == Head(messages)
             rest == Tail(messages)
         IN IF \E k \in 1 .. Len(rest) : rest[k].content = msg.content
            THEN ExactDedup_KeepLast(rest, contentSet, uniqueMessages)
            ELSE ExactDedup_KeepLast(rest, contentSet \cup {msg.content},
                                     Append(uniqueMessages, msg))

\* The loop over data.messages that fills contentSet and uniqueMessages.
RECURSIVE ExactDedup(_, _, _)
ExactDedup(messages, contentSet, uniqueMessages) ==
    IF messages = <<>>
    THEN uniqueMessages
    ELSE LET msg == Head(messages) IN
         IF msg.content \notin contentSet
         THEN ExactDedup(Tail(messages), contentSet \cup {msg.content},
                         Append(uniqueMessages, msg))
         ELSE ExactDedup(Tail(messages), contentSet, uniqueMessages)

\* FieldCondition without the `&& data.subindustry` test.
FieldCondition_NoEmptyTest(field, data) ==
    IF field = "topic" /\ ~Falsy(data, "topic")
    THEN <<[column |-> "topic", value |-> data.topic]>>
    ELSE IF field = "industry" /\ ~Falsy(data, "industry")
    THEN <<[column |-> "industry", value |-> data.industry]>>
    ELSE IF field = "subindustry"
    THEN <<[column |-> "subindustry", value |-> data.subindustry]>>
    ELSE IF field = "job_id" /\ ~Falsy(data, "job_id")
    THEN <<[column |-> "job_id", value |-> data.job_id]>>
    ELSE <<>>

\* One step of `filter_by.forEach`: the condition the field adds, if any.
FieldCondition(field, data) ==
    IF field = "topic" /\ ~Falsy(data, "topic")
    THEN <<[column |-> "topic", value |-> data.topic]>>
    ELSE IF field = "industry" /\ ~Falsy(data, "industry")
    THEN <<[column |-> "industry", value |-> data.industry]>>
    ELSE IF field = "subindustry" /\ ~Falsy(data, "subindustry")
    THEN <<[column |-> "subindustry", value |-> data.subindustry]>>
    ELSE IF field = "job_id" /\ ~Falsy(data, "job_id")
    THEN <<[column |-> "job_id", value |-> data.job_id]>>
    ELSE <<>>

\* whereConditions paired with queryParams, in the order pushed.
RECURSIVE WhereConditions(_, _)
WhereConditions(filter_by, data) ==
    IF filter_by = <<>>
    THEN <<>>
    ELSE FieldCondition(Head(filter_by), data) \o WhereConditions(Tail(filter_by), data)

\* `WHERE c1 AND c2 ...` on one row; no WHERE clause when there is no condition.
Satisfies(row, whereConditions) ==
    \A k \in 1 .. Len(whereConditions) :
        row[whereConditions[k].column] = whereConditions[k].value

\* SimilarityQuery without its ORDER BY: the first matching row, not the nearest.
SimilarityQuery_Unordered(table, whereConditions, embedding) ==
    LET matching == { n \in 1 .. Len(table) : Satisfies(table[n], whereConditions) } IN
    IF matching = {}
    THEN <<>>
    ELSE << [similarity_score |->
               SimilarityScore(table[CHOOSE n \in matching : \A m \in matching : n <= m].embedding,
                               embedding)] >>

\* similarityQuery on the table: result.rows, at most the nearest row. Only
\* similarity_score is read from it.
SimilarityQuery(table, whereConditions, embedding) ==
    LET matching == { n \in 1 .. Len(table) : Satisfies(table[n], whereConditions) } IN
    IF matching = {}
    THEN <<>>
    ELSE << [similarity_score |->
               SetMax({ SimilarityScore(table[n].embedding, embedding) : n \in matching })] >>

\* The comparison with `<=` for `<`.
BelowThreshold_Inclusive(similarityScore, threshold) == similarityScore <= threshold

\* `similarityScore < data.similarity_search_score_threshold`
BelowThreshold(similarityScore, threshold) == similarityScore < threshold

\* InsertRow with the topic and industry parameters in each other's place.
InsertRow_Swapped(data, message, embedding, similarityScore) ==
    [job_id |-> data.job_id, message_id |-> message.message_id, topic |-> data.industry,
     industry |-> data.topic, subindustry |-> data.subindustry,
     content |-> message.content, embedding |-> embedding,
     similarity_search_score |-> similarityScore,
     platform_name |-> message.platform_name]

\* The row of the INSERT statement.
InsertRow(data, message, embedding, similarityScore) ==
    [job_id |-> data.job_id, message_id |-> message.message_id, topic |-> data.topic,
     industry |-> data.industry, subindustry |-> data.subindustry,
     content |-> message.content, embedding |-> embedding,
     similarity_search_score |-> similarityScore,
     platform_name |-> message.platform_name]

\* Slice with an inclusive end index: one message more than the chunk size.
Slice_Overlap(uniqueMessages, i) ==
    SubSeq(uniqueMessages, i + 1, Min(i + embeddingBatchSize + 1, Len(uniqueMessages)))

\* uniqueMessages.slice(i, i + embeddingBatchSize), i counted from 0.
Slice(uniqueMessages, i) ==
    SubSeq(uniqueMessages, i + 1, Min(i + embeddingBatchSize, Len(uniqueMessages)))

ContentsOf(batch) == [k \in 1 .. Len(batch) |-> batch[k].content]

\* ------------------------------------------------------------------ state

VARIABLES
    store,  \* the rows of the table, in insertion order
    model,  \* the embedding function the provider runs
    proc    \* proc[b]: the locals of invocation b of fetch / processBatch

vars == <<store, model, proc>>

\* Fields of proc[b] once processBatch is called:
\*   request   the request fetch was called with
\*   pc        the await the invocation is suspended at:
\*             "connect" | "embed" | "query" | "insert" | "end", then "done"
\*   inflight  the external operation that await is waiting for
\*   data, filter_by, stats, uniqueMessages, nonDuplicateMessages, i, j,
\*   embeddings, similarityScore   the locals of processBatch of these names
\*   error     what the try block threw ("none" when it returned)
\*   result    the value processBatch returns
\*   aiCalls   the `text` arguments of the env.AI.run calls made so far
\*   log       the "INFO: Inserting" / "INFO: Dropping similar" lines written
\*   endCalls  how many times dbClient.end() was called
Idle == [pc |-> "idle"]
Off == [pc |-> "off"]

\* processBatch was called for this invocation.
Started(p) == "data" \in DOMAIN p

\* dbClient.connect() resolved: the body of the try block ran.
Connected(p) == Started(p) /\ p.pc # "connect" /\ p.error # "connect"

\* processBatch returned its result and fetch answered 200.
Succeeded(p) == p.pc = "done" /\ p.response.status = 200

\* ------------------------------------------------------------------ processBatch, from await to await

\* Leaving the try block, by return or by throw: `finally` calls dbClient.end().
CallEnd(p, error) ==
    [p EXCEPT !.pc = "end", !.error = error,
              !.inflight = [op |-> "end"], !.endCalls = @ + 1]

\* "Update stats and prepare response" and the return statement.
Finish(p) ==
    LET inserted == Len(p.nonDuplicateMessages)
        stats == [p.stats EXCEPT !.inserted = inserted,
                                 !.insertion_rate = Divide(inserted, p.stats.received)]
        result ==
            [status |-> "success",
             data |-> [table_name |-> p.data.table_name,
                       job_id |-> p.data.job_id,
                       topic |-> p.data.topic,
                       industry |-> p.data.industry,
                       subindustry |-> p.data.subindustry,
                       similarity_search_score_threshold |->
                           p.data.similarity_search_score_threshold,
                       filter_by |-> p.filter_by,
                       stats |-> stats,
                       non_duplicate_messages |->
                           [k \in 1 .. Len(p.nonDuplicateMessages) |->
                               [message_id |-> p.nonDuplicateMessages[k].message_id,
                                content |-> p.nonDuplicateMessages[k].content]]],
             message |-> "Batch processing completed successfully"]
    IN CallEnd([p EXCEPT !.stats = stats, !.result = result], "none")

\* The head of the outer loop at offset i: call env.AI.run on the chunk, or
\* leave the loop.
EmbedLoop(p, i) ==
    IF i < Len(p.uniqueMessages)
    THEN LET contents == ContentsOf(Slice(p.uniqueMessages, i)) IN
         [p EXCEPT !.pc = "embed", !.i = i,
                   !.inflight = [op |-> "AI.run", text |-> contents],
                   !.aiCalls = Append(@, contents)]
    ELSE Finish(p)

\* The head of the inner loop at index j: build and send the similarity query
\* for batch[j]; embeddings.data[j] undefined makes `embedding.join` throw.
MessageLoop(p, j) ==
    IF j < Len(Slice(p.uniqueMessages, p.i))
    THEN IF j + 1 > Len(p.embeddings)
         THEN CallEnd([p EXCEPT !.j = j], "TypeError")
         ELSE [p EXCEPT !.pc = "query", !.j = j,
                        !.inflight =
                            [op |-> "query",
                             where |-> WhereConditions(p.filter_by, p.data),
                             embedding |-> p.embeddings[j + 1]]]
    ELSE EmbedLoop(p, p.i + embeddingBatchSize)

\* dbClient.connect() resolved: stats, exact duplicates, first chunk.
OnConnected(p) ==
    LET received == Len(p.data.messages)
        uniqueMessages == ExactDedup(p.data.messages, {}, <<>>)
    IN EmbedLoop([p EXCEPT !.stats = [received |-> received, inserted |-> 0,
                                      dropped |-> received - Len(uniqueMessages),
                                      insertion_rate |-> Zero],
                           !.uniqueMessages = uniqueMessages,
                           !.nonDuplicateMessages = <<>>],
                 0)

\* env.AI.run resolved with embeddings.data = data.
OnEmbeddings(p, data) == MessageLoop([p EXCEPT !.embeddings = data], 0)

CurrentMessage(p) == Slice(p.uniqueMessages, p.i)[p.j + 1]

\* `INFO: <event> message_id=..., similarity=...`
LogLine(event, message, similarityScore) ==
    [event |-> event, message_id |-> message.message_id, similarity |-> similarityScore]

\* OnQueryResult with `stats.dropped++` left out of the else branch.
OnQueryResult_NoDropCount(p, rows) ==
    LET similarityScore == IF Len(rows) > 0 THEN rows[1].similarity_score ELSE 0
        q == [p EXCEPT !.similarityScore = similarityScore]
    IN IF BelowThreshold(similarityScore, p.data.similarity_search_score_threshold)
       THEN [q EXCEPT !.pc = "insert",
                      !.log = Append(@, LogLine("Inserting", CurrentMessage(p),
                                                similarityScore)),
                      !.inflight =
                          [op |-> "insert",
                           row |-> InsertRow(p.data, CurrentMessage(p),
                                             p.inflight.embedding, similarityScore)]]
       ELSE MessageLoop([q EXCEPT !.log = Append(@, LogLine("Dropping similar",
                                                            CurrentMessage(p),
                                                            similarityScore))],
                        p.j + 1)

\* OnQueryResult with the INSERT sent and not awaited: the loop goes on to the
\* next message while the statement is still outstanding.
OnQueryResult_NoAwaitInsert(p, rows) ==
    LET similarityScore == IF Len(rows) > 0 THEN rows[1].similarity_score ELSE 0
        q == [p EXCEPT !.similarityScore = similarityScore]
    IN IF BelowThreshold(similarityScore, p.data.similarity_search_score_threshold)
       THEN MessageLoop([q EXCEPT !.log = Append(@, LogLine("Inserting", CurrentMessage(p),
                                                            similarityScore)),
                                  !.nonDuplicateMessages = Append(@, CurrentMessage(p))],
                        p.j + 1)
       ELSE MessageLoop([q EXCEPT !.stats.dropped = @ + 1,
                                  !.log = Append(@, LogLine("Dropping similar",
                                                            CurrentMessage(p),
                                                            similarityScore))],
                        p.j + 1)

\* The similarity query resolved with result.rows = rows.
OnQueryResult(p, rows) ==
    LET similarityScore == IF Len(rows) > 0 THEN rows[1].similarity_score ELSE 0
        q == [p EXCEPT !.similarityScore = similarityScore]
    IN IF BelowThreshold(similarityScore, p.data.similarity_search_score_threshold)
       THEN [q EXCEPT !.pc = "insert",
                      !.log = Append(@, LogLine("Inserting", CurrentMessage(p),
                                                similarityScore)),
                      !.inflight =
                          [op |-> "insert",
                           row |-> InsertRow(p.data, CurrentMessage(p),
                                             p.inflight.embedding, similarityScore)]]
       ELSE MessageLoop([q EXCEPT !.stats.dropped = @ + 1,
                                  !.log = Append(@, LogLine("Dropping similar",
                                                            CurrentMessage(p),
                                                            similarityScore))],
                        p.j + 1)

\* OnInserted with `unshift` for `push`: the accepted message goes in front.
OnInserted_Unshift(p) ==
    MessageLoop([p EXCEPT !.nonDuplicateMessages = <<CurrentMessage(p)>> \o @],
                p.j + 1)

\* The INSERT resolved.
OnInserted(p) ==
    MessageLoop([p EXCEPT !.nonDuplicateMessages = Append(@, CurrentMessage(p))],
                p.j + 1)

\* ------------------------------------------------------------------ fetch, after processBatch

\* JSON.stringify writes NaN and Infinity as null.
JsonNumber(x) == IF "special" \in DOMAIN x THEN Null ELSE x

Stringify(result) == [result EXCEPT !.data.stats.insertion_rate = JsonNumber(@)]

ErrorResponse(status, message) ==
    [status |-> status, body |-> [status |-> "error", message |-> message]]

\* dbClient.end() settled: processBatch returns or rethrows, fetch answers.
OnEnd(p) ==
    [p EXCEPT !.pc = "done", !.inflight = [op |-> "none"],
              !.response = IF p.error = "none"
                           THEN [status |-> 200, body |-> Stringify(p.result)]
                           ELSE ErrorResponse(500, "Internal server error")]

\* fetch up to `await processBatch(...)`, itself up to `await dbClient.connect()`.
Handle(request) ==
    LET v == Validate(request) IN
    IF v.status # 200
    THEN [pc |-> "done", request |-> request,
          response |-> ErrorResponse(v.status, v.message)]
    ELSE LET data == request.body.data IN
         [pc |-> "connect", inflight |-> [op |-> "connect"], request |-> request,
          data |-> data, filter_by |-> ResolveFilterBy(data),
          stats |-> [received |-> 0, inserted |-> 0, dropped |-> 0,
                     insertion_rate |-> Zero],
          uniqueMessages |-> <<>>, nonDuplicateMessages |-> <<>>,
          i |-> 0, j |-> 0, embeddings |-> <<>>, similarityScore |-> 0,
          error |-> "none", result |-> Null, response |-> Null,
          aiCalls |-> <<>>, log |-> <<>>, endCalls |-> 0]

\* ------------------------------------------------------------------ actions

Set(b, p) == proc' = [proc EXCEPT ![b] = p]

Fetch(b) ==
    /\ proc[b].pc = "idle"
    /\ \E request \in Requests : Set(b, Handle(request))
    /\ UNCHANGED <<store, model>>

Connect(b) ==
    /\ proc[b].pc = "connect"
    /\ Set(b, OnConnected(proc[b]))
    /\ UNCHANGED <<store, model>>

ConnectFail(b) ==
    /\ proc[b].pc = "connect"
    /\ Set(b, CallEnd(proc[b], "connect"))
    /\ UNCHANGED <<store, model>>

\* The provider answers with one vector per text, in order.
Embed(b) ==
    /\ proc[b].pc = "embed"
    /\ LET text == proc[b].inflight.text IN
       Set(b, OnEmbeddings(proc[b], [k \in 1 .. Len(text) |-> model[text[k]]]))
    /\ UNCHANGED <<store, model>>

\* The provider answers with fewer vectors than texts.
EmbedShort(b) ==
    /\ proc[b].pc = "embed"
    /\ LET text == proc[b].inflight.text IN
       Set(b, OnEmbeddings(proc[b], [k \in 1 .. Len(text) - 1 |-> model[text[k]]]))
    /\ UNCHANGED <<store, model>>

\* EmbedFail with the catch block logging the error and not rethrowing it: the
\* outer loop goes on to the next chunk.
EmbedFail_NoRethrow(b) ==
    /\ proc[b].pc = "embed"
    /\ Set(b, EmbedLoop([proc[b] EXCEPT !.error = "provider"],
                        proc[b].i + embeddingBatchSize))
    /\ UNCHANGED <<store, model>>

EmbedFail(b) ==
    /\ proc[b].pc = "embed"
    /\ Set(b, CallEnd(proc[b], "provider"))
    /\ UNCHANGED <<store, model>>

\* Query taking a table lock that INSERT holds: the SELECT of one invocation is
\* not answered while another invocation is between its SELECT and its INSERT.
Query_Locked(b) ==
    /\ proc[b].pc = "query"
    /\ \A a \in Batches \ {b} : proc[a].pc # "insert"
    /\ Set(b, OnQueryResult(proc[b],
                 SimilarityQuery(store, proc[b].inflight.where,
                                 proc[b].inflight.embedding)))
    /\ UNCHANGED <<store, model>>

Query(b) ==
    /\ proc[b].pc = "query"
    /\ Set(b, OnQueryResult(proc[b],
                 SimilarityQuery(store, proc[b].inflight.where,
                                 proc[b].inflight.embedding)))
    /\ UNCHANGED <<store, model>>

QueryFail(b) ==
    /\ proc[b].pc = "query"
    /\ Set(b, CallEnd(proc[b], "query"))
    /\ UNCHANGED <<store, model>>

\* Insert as an upsert that takes the place of the newest row of the table.
Insert_Replace(b) ==
    /\ proc[b].pc = "insert"
    /\ store' = IF store = <<>>
                THEN <<proc[b].inflight.row>>
                ELSE [store EXCEPT ![Len(store)] = proc[b].inflight.row]
    /\ Set(b, OnInserted(proc[b]))
    /\ UNCHANGED model

Insert(b) ==
    /\ proc[b].pc = "insert"
    /\ store' = Append(store, proc[b].inflight.row)
    /\ Set(b, OnInserted(proc[b]))
    /\ UNCHANGED model

\* InsertFail with the failed statement taking the batch's earlier rows with it,
\* as it would inside one transaction.
InsertFail_Rollback(b) ==
    /\ proc[b].pc = "insert"
    /\ store' = SelectSeq(store, LAMBDA row : row.message_id = 0)
    /\ Set(b, CallEnd(proc[b], "insert"))
    /\ UNCHANGED model

InsertFail(b) ==
    /\ proc[b].pc = "insert"
    /\ Set(b, CallEnd(proc[b], "insert"))
    /\ UNCHANGED <<store, model>>

\* dbClient.end() resolves, or rejects and is caught: the same continuation.
End(b) ==
    /\ proc[b].pc = "end"
    /\ Set(b, OnEnd(proc[b]))
    /\ UNCHANGED <<store, model>>

Step(b) ==
    \/ Fetch(b)
    \/ Connect(b)
    \/ ConnectFail(b)
    \/ Embed(b)
    \/ EmbedShort(b)
    \/ EmbedFail(b)
    \/ Query(b)
    \/ QueryFail(b)
    \/ Insert(b)
    \/ InsertFail(b)
    \/ End(b)

Next == \E b \in Batches : Step(b)

\* One invocation at a time: invocation 1 runs, invocation 2 never starts.
Init ==
    /\ store \in InitStores
    /\ model \in Models
    /\ proc = [b \in Batches |-> IF b = 1 THEN Idle ELSE Off]

Spec == Init /\ [][Next]_vars

\* ------------------------------------------------------------------ properties

Threshold(b) == proc[b].data.similarity_search_score_threshold

\* The rows this invocation wrote (the rows of Init carry message_id 0).
RowsOf(b) ==
    { n \in 1 .. Len(store) :
        store[n].message_id # 0 /\ store[n].job_id = proc[b].data.job_id }

ExactDuplicates(messages) ==
    Len(messages) - Cardinality({ messages[k].content : k \in 1 .. Len(messages) })

Rejections(log) == Cardinality({ k \in 1 .. Len(log) : log[k].event = "Dropping similar" })

\* The similarity of two texts under the provider's model.
Similarity(c1, c2) == SimilarityScore(model[c1], model[c2])

\* C1: the statistics of a batch that completed satisfy
\* received = inserted + dropped, with received the length of the submitted
\* list, inserted the number of rows the batch wrote, and dropped the exact
\* duplicates plus the similarity rejections.
C1_ReceivedIsInsertedPlusDropped ==
    \A b \in Batches :
        Succeeded(proc[b]) =>
            LET stats == proc[b].result.data.stats IN
            /\ stats.received = Len(proc[b].data.messages)
            /\ stats.inserted = Cardinality(RowsOf(b))
            /\ stats.dropped = ExactDuplicates(proc[b].data.messages) + Rejections(proc[b].log)
            /\ stats.received = stats.inserted + stats.dropped

\* A completed batch with an insert, an exact duplicate and a similarity rejection.
C1_Witness ==
    \E b \in Batches :
        /\ Succeeded(proc[b])
        /\ proc[b].result.data.stats.inserted >= 1
        /\ ExactDuplicates(proc[b].data.messages) >= 1
        /\ Rejections(proc[b].log) >= 1

\* C2: insertion_rate = inserted / received when received > 0, and 0 when
\* received = 0.
C2_InsertionRate ==
    \A b \in Batches :
        Succeeded(proc[b]) =>
            LET stats == proc[b].result.data.stats
                rate == stats.insertion_rate
            IN /\ "num" \in DOMAIN rate
               /\ stats.received > 0 => rate.num * stats.received = stats.inserted * rate.den
               /\ stats.received = 0 => rate.num = 0

\* C3: no two messages accepted by one batch have a similarity at or above
\* the batch's threshold.
C3_NoTwoSimilarAccepted ==
    \A b \in Batches :
        Started(proc[b]) =>
            LET accepted == proc[b].nonDuplicateMessages IN
            \A m, n \in 1 .. Len(accepted) :
                m < n => Similarity(accepted[m].content, accepted[n].content) < Threshold(b)

\* A batch over a non-empty table accepted A in its first chunk and rejected a
\* similar B in its second chunk.
C3_Witness ==
    \E b \in Batches :
        /\ Succeeded(proc[b])
        /\ Len(store) > 0 /\ store[1].message_id = 0
        /\ LET unique == proc[b].uniqueMessages
               accepted == ToSet(proc[b].nonDuplicateMessages)
           IN \E m \in 1 .. embeddingBatchSize :
              \E n \in embeddingBatchSize + 1 .. Len(unique) :
                /\ unique[m] \in accepted
                /\ unique[n] \notin accepted
                /\ Similarity(unique[m].content, unique[n].content) >= Threshold(b)

\* The text of the message a log line names (message_id is the position).
LoggedContent(b, line) == proc[b].data.messages[line.message_id].content

\* C4, as stated: of two messages of a batch whose similarity is BELOW the
\* threshold, the first being accepted, the second is rejected.
C4_BelowThresholdRejected ==
    \A b \in Batches :
        Succeeded(proc[b]) =>
            LET unique == proc[b].uniqueMessages
                accepted == ToSet(proc[b].nonDuplicateMessages)
            IN \A m, n \in 1 .. Len(unique) :
                (/\ m < n
                 /\ unique[m] \in accepted
                 /\ Similarity(unique[m].content, unique[n].content) < Threshold(b))
                => unique[n] \notin accepted

\* C4, amended: once the gate has accepted A, it rejects every later message
\* B of the batch whose similarity to A is at or above the threshold, whatever
\* the table held before.
C4_AtOrAboveThresholdRejected ==
    \A b \in Batches :
        Started(proc[b]) =>
            LET log == proc[b].log IN
            \A m, n \in 1 .. Len(log) :
                (/\ m < n
                 /\ log[m].event = "Inserting"
                 /\ Similarity(LoggedContent(b, log[m]), LoggedContent(b, log[n]))
                        >= Threshold(b))
                => log[n].event = "Dropping similar"

\* B was rejected after A was accepted, and no row the table held before the
\* batch is similar enough to B to reject it.
C4_Witness ==
    \E b \in Batches :
        /\ Started(proc[b])
        /\ Len(store) > 0
        /\ LET log == proc[b].log IN
           \E m, n \in 1 .. Len(log) :
              /\ m < n
              /\ log[m].event = "Inserting"
              /\ log[n].event = "Dropping similar"
              /\ Similarity(LoggedContent(b, log[m]), LoggedContent(b, log[n])) >= Threshold(b)
              /\ \A r \in 1 .. Len(store) :
                    store[r].message_id = 0 =>
                        SimilarityScore(store[r].embedding, model[LoggedContent(b, log[n])])
                            < Threshold(b)

\* The positions of the first occurrence of each content.
FirstOccurrences(messages) ==
    { k \in 1 .. Len(messages) :
        \A m \in 1 .. k - 1 : messages[m].content # messages[k].content }

\* The k-th smallest member of a set of numbers.
Nth(S, k) == CHOOSE x \in S : Cardinality({ y \in S : y <= x }) = k

RECURSIVE Flatten(_)
Flatten(seqs) == IF seqs = <<>> THEN <<>> ELSE Head(seqs) \o Flatten(Tail(seqs))

\* C5: uniqueMessages is the subsequence of the first occurrences of each
\* content under plain equality; only its messages are embedded and gated; the
\* stage adds (original length - filtered length) to dropped.
C5_FirstOccurrencesKept ==
    \A b \in Batches :
        Connected(proc[b]) =>
            LET messages == proc[b].data.messages
                first == FirstOccurrences(messages)
                unique == proc[b].uniqueMessages
                embedded == Flatten(proc[b].aiCalls)
            IN /\ Len(unique) = Cardinality(first)
               /\ \A k \in 1 .. Len(unique) : unique[k] = messages[Nth(first, k)]
               /\ Len(embedded) <= Len(unique)
               /\ \A k \in 1 .. Len(embedded) : embedded[k] = unique[k].content
               /\ \A k \in 1 .. Len(proc[b].log) : proc[b].log[k].message_id \in first
               /\ proc[b].stats.dropped
                      = (Len(messages) - Len(unique)) + Rejections(proc[b].log)

\* "a", "A", "a" submitted: "a" and "A" are both kept, the second "a" is
\* dropped, and the kept messages are being embedded.
C5_Witness ==
    \E b \in Batches :
        /\ Connected(proc[b])
        /\ proc[b].pc = "embed"
        /\ ContentsOf(proc[b].data.messages) = <<"a", "A", "a">>
        /\ ContentsOf(proc[b].uniqueMessages) = <<"a", "A">>
        /\ proc[b].stats.dropped = 1

\* The message_ids of the accepted output.
OutputIds(b) ==
    LET out == proc[b].response.body.data.non_duplicate_messages IN
    { out[k].message_id : k \in 1 .. Len(out) }

\* C6, as stated: of two messages with identical content (the first being the
\* first with that content), exactly the first is in non_duplicate_messages.
\* Stated for the positive thresholds, under which an empty table rejects
\* nothing.
C6_ExactlyFirstPresent ==
    \A b \in Batches :
        (Succeeded(proc[b]) /\ Threshold(b) > 0) =>
            LET messages == proc[b].data.messages IN
            \A m, n \in 1 .. Len(messages) :
                (/\ m < n
                 /\ m \in FirstOccurrences(messages)
                 /\ messages[m].content = messages[n].content)
                => (m \in OutputIds(b) /\ n \notin OutputIds(b))

\* C6, amended: of two messages with identical content at most one is in
\* non_duplicate_messages, and never the later one.
C6_LaterNeverPresent ==
    \A b \in Batches :
        Succeeded(proc[b]) =>
            LET messages == proc[b].data.messages IN
            \A m, n \in 1 .. Len(messages) :
                (m < n /\ messages[m].content = messages[n].content)
                => n \notin OutputIds(b)

\* Two messages with identical content, neither in the output: the first was
\* rejected by the gate under a positive threshold.
C6_Witness ==
    \E b \in Batches :
        /\ Succeeded(proc[b])
        /\ Threshold(b) >= 1
        /\ LET messages == proc[b].data.messages IN
           \E m, n \in 1 .. Len(messages) :
              /\ m < n
              /\ messages[m].content = messages[n].content
              /\ m \notin OutputIds(b)
              /\ n \notin OutputIds(b)
              /\ OutputIds(b) # {}

\* C7: the gate accepts a message exactly when its score is strictly below
\* the threshold; a score equal to the threshold is rejected and counted in
\* dropped; what is inserted is what was accepted.
C7_StrictThreshold ==
    \A b \in Batches :
        Connected(proc[b]) =>
            LET log == proc[b].log
                inserting == { log[k].message_id : k \in { n \in 1 .. Len(log) : log[n].event = "Inserting" } }
            IN /\ \A k \in 1 .. Len(log) :
                    /\ log[k].event \in {"Inserting", "Dropping similar"}
                    /\ log[k].event = "Inserting" <=> log[k].similarity < Threshold(b)
               /\ { store[n].message_id : n \in RowsOf(b) } \subseteq inserting
               /\ \A n \in RowsOf(b) : store[n].similarity_search_score < Threshold(b)
               /\ proc[b].stats.dropped
                      = ExactDuplicates(proc[b].data.messages) + Rejections(log)

\* A message whose nearest row scored exactly the threshold was dropped.
C7_Witness ==
    \E b \in Batches :
        /\ Connected(proc[b])
        /\ Threshold(b) = 1
        /\ \E k \in 1 .. Len(proc[b].log) :
              /\ proc[b].log[k].similarity = Threshold(b)
              /\ proc[b].log[k].event = "Dropping similar"
        /\ proc[b].stats.dropped = 1

\* C8: when the query returns no row the score is 0 and the message is
\* accepted, for every threshold. While the table holds no row satisfying the
\* batch's predicate (the table never shrinks, so no earlier query of the batch
\* returned a row either), nothing was rejected and the score is 0.
C8_NoRowMeansAccepted ==
    \A b \in Batches :
        (/\ Connected(proc[b])
         /\ \A n \in 1 .. Len(store) :
                ~Satisfies(store[n], WhereConditions(proc[b].filter_by, proc[b].data)))
        => (/\ Rejections(proc[b].log) = 0
            /\ proc[b].similarityScore = 0)

KnownFields == {"topic", "industry", "subindustry", "job_id"}

\* The equality conditions the claim gives: one per known field named in
\* filter_by whose value on the request is not empty.
ExpectedConditions(b) ==
    { [column |-> f, value |-> proc[b].data[f]] :
        f \in { g \in ToSet(proc[b].filter_by) \cap KnownFields : proc[b].data[g] # "" } }

\* The best score among the rows meeting a set of equality conditions; 0 when
\* there is none.
NearestAmong(conditions, embedding) ==
    LET rows == { n \in 1 .. Len(store) :
                    \A c \in conditions : store[n][c.column] = c.value }
    IN IF rows = {}
       THEN 0
       ELSE SetMax({ SimilarityScore(store[n].embedding, embedding) : n \in rows })

\* C9: the query in flight carries exactly the expected conditions, and the
\* score it returned is the best among exactly the rows meeting them (all rows
\* when there is none). The second part is read at the insert, before which
\* the table has not changed since the query.
C9_FilterConditions ==
    \A b \in Batches :
        /\ proc[b].pc = "query" =>
              ToSet(proc[b].inflight.where) = ExpectedConditions(b)
        /\ proc[b].pc = "insert" =>
              proc[b].similarityScore
                  = NearestAmong(ExpectedConditions(b), proc[b].inflight.row.embedding)

\* An empty predicate: the query ran over a table whose only row is of another
\* topic, and that row gave the score.
C9_Witness ==
    \E b \in Batches :
        /\ proc[b].pc = "insert"
        /\ ExpectedConditions(b) = {}
        /\ Len(store) = 1
        /\ store[1].topic # proc[b].data.topic
        /\ proc[b].similarityScore # 0

\* C10, as stated: the resolved filter_by is never empty; it is the default
\* when the request gives none, the caller's list otherwise, and the response
\* echoes it.
C10_FilterByNonEmpty ==
    \A b \in Batches :
        Started(proc[b]) =>
            /\ proc[b].filter_by # <<>>
            /\ "filter_by" \notin DOMAIN proc[b].data =>
                  proc[b].filter_by = <<"topic", "subindustry">>
            /\ "filter_by" \in DOMAIN proc[b].data =>
                  proc[b].filter_by = proc[b].data.filter_by
            /\ Succeeded(proc[b]) =>
                  proc[b].response.body.data.filter_by = proc[b].filter_by

\* C10, amended: the resolved filter_by is the default when the request gives
\* none and the caller's list otherwise, an empty list included; the response
\* echoes it.
C10_FilterByResolved ==
    \A b \in Batches :
        Started(proc[b]) =>
            /\ "filter_by" \notin DOMAIN proc[b].data =>
                  proc[b].filter_by = <<"topic", "subindustry">>
            /\ "filter_by" \in DOMAIN proc[b].data =>
                  proc[b].filter_by = proc[b].data.filter_by
            /\ Succeeded(proc[b]) =>
                  proc[b].response.body.data.filter_by = proc[b].filter_by

\* A completed batch whose request gave an empty filter_by, echoed empty.
C10_Witness ==
    \E b \in Batches :
        /\ Succeeded(proc[b])
        /\ "filter_by" \in DOMAIN proc[b].data
        /\ proc[b].data.filter_by = <<>>
        /\ proc[b].response.body.data.filter_by = <<>>
        /\ Len(proc[b].data.messages) > 0

\* C11: in a success response non_duplicate_messages is a subsequence of the
\* submitted list, holds exactly the messages the batch inserted, each once,
\* carries only message_id and content, and is as long as stats.inserted.
C11_OutputIsInsertedSubsequence ==
    \A b \in Batches :
        Succeeded(proc[b]) =>
            LET out == proc[b].response.body.data.non_duplicate_messages
                messages == proc[b].data.messages
            IN /\ \A k \in 1 .. Len(out) :
                    /\ DOMAIN out[k] = {"message_id", "content"}
                    /\ out[k].message_id \in 1 .. Len(messages)
                    /\ out[k].content = messages[out[k].message_id].content
               /\ \A k \in 1 .. Len(out) - 1 : out[k].message_id < out[k + 1].message_id
               /\ OutputIds(b) = { store[n].message_id : n \in RowsOf(b) }
               /\ Cardinality(RowsOf(b)) = Len(out)
               /\ Len(out) = proc[b].response.body.data.stats.inserted

\* The first and the third of three submitted messages are the output, the
\* second was rejected by the gate.
C11_Witness ==
    \E b \in Batches :
        /\ Succeeded(proc[b])
        /\ OutputIds(b) = {1, 3}
        /\ Len(proc[b].uniqueMessages) = 3

\* The rows of the batch are those of the `Inserting` lines it logged, and as
\* many as the messages it pushed to nonDuplicateMessages.
RowsAreAccepted(b) ==
    /\ { store[n].message_id : n \in RowsOf(b) }
           = { proc[b].nonDuplicateMessages[k].message_id :
                  k \in 1 .. Len(proc[b].nonDuplicateMessages) }
    /\ Cardinality(RowsOf(b)) = Len(proc[b].nonDuplicateMessages)

NoSuccessPayload(b) ==
    /\ proc[b].result = Null
    /\ proc[b].pc \in {"end", "done"}
    /\ proc[b].pc = "done" =>
          /\ proc[b].response.status = 500
          /\ proc[b].response.body = [status |-> "error", message |-> "Internal server error"]

\* C12: when env.AI.run fails for a chunk, the batch produces no success
\* payload, the failing call is the last provider call (no retry, no later
\* chunk), and the table holds exactly the rows of the messages accepted in the
\* chunks before it.
C12_ProviderFailureAborts ==
    \A b \in Batches :
        (Started(proc[b]) /\ proc[b].error = "provider") =>
            /\ NoSuccessPayload(b)
            /\ Len(proc[b].aiCalls) = (proc[b].i \div embeddingBatchSize) + 1
            /\ Len(proc[b].log) = proc[b].i
            /\ RowsAreAccepted(b)

\* The provider failed on the second chunk, after a row of the first chunk
\* was written, and fetch has answered.
C12_Witness ==
    \E b \in Batches :
        /\ Started(proc[b])
        /\ proc[b].error = "provider"
        /\ proc[b].pc = "done"
        /\ proc[b].i > 0
        /\ RowsOf(b) # {}

\* The n-th line of the log is about the n-th message of uniqueMessages: each
\* message is queried once, in order.
LogFollowsUnique(b) ==
    \A n \in 1 .. Len(proc[b].log) :
        /\ n <= Len(proc[b].uniqueMessages)
        /\ proc[b].log[n].message_id = proc[b].uniqueMessages[n].message_id

\* C13: when the similarity query or the INSERT of message k fails, or
\* embeddings.data has no vector for it, the batch ends with no success
\* payload; no message after k was queried or inserted, message k was not
\* tried again, and the rows written for the messages before k are still in
\* the table.
C13_StoreFailureAborts ==
    \A b \in Batches :
        (Started(proc[b]) /\ proc[b].error \in {"query", "insert", "TypeError"}) =>
            LET k == proc[b].i + proc[b].j + 1 IN
            /\ NoSuccessPayload(b)
            /\ Len(proc[b].log) = IF proc[b].error = "insert" THEN k ELSE k - 1
            /\ LogFollowsUnique(b)
            /\ proc[b].error = "insert" =>
                  /\ proc[b].log[k].event = "Inserting"
                  /\ \A n \in RowsOf(b) :
                        store[n].message_id # proc[b].uniqueMessages[k].message_id
            /\ Len(proc[b].aiCalls) = (proc[b].i \div embeddingBatchSize) + 1
            /\ RowsAreAccepted(b)

\* The INSERT of a later message failed after an earlier row was written, and
\* fetch has answered.
C13_Witness ==
    \E b \in Batches :
        /\ Started(proc[b])
        /\ proc[b].error = "insert"
        /\ proc[b].pc = "done"
        /\ RowsOf(b) # {}

\* ------------------------------------------------------------------ resubmission

\* The external completions of invocation b: every step but the call of fetch.
Run(b) ==
    \/ Connect(b)
    \/ ConnectFail(b)
    \/ Embed(b)
    \/ EmbedShort(b)
    \/ EmbedFail(b)
    \/ Query(b)
    \/ QueryFail(b)
    \/ Insert(b)
    \/ InsertFail(b)
    \/ End(b)

\* The batches a caller submits and, after the answer, submits again.
ResubmitRequests ==
    { Http(Bearer(DEDUP_AUTH_TOKEN), "POST", Json(d)) :
        d \in { g \in GoodBodies : g.subindustry = "s1" } }

Submit(b) ==
    /\ proc[b].pc = "idle"
    /\ \E request \in ResubmitRequests : Set(b, Handle(request))
    /\ UNCHANGED <<store, model>>

\* Once an invocation has answered, the caller sends the same body again.
Resubmit(b) ==
    /\ proc[b].pc = "off"
    /\ \E a \in Batches \ {b} :
          /\ Started(proc[a])
          /\ proc[a].pc = "done"
          /\ Set(b, Handle(Http(Bearer(DEDUP_AUTH_TOKEN), "POST", Json(proc[a].data))))
    /\ UNCHANGED <<store, model>>

NextResubmit == \E b \in Batches : Submit(b) \/ Resubmit(b) \/ Run(b)

InitResubmit ==
    /\ store = <<>>
    /\ model \in Models
    /\ proc = [b \in Batches |-> IF b = 1 THEN Idle ELSE Off]

SpecResubmit == InitResubmit /\ [][NextResubmit]_vars

\* The rows invocation b has written so far are the last of the table when no
\* other invocation runs after it started.
LastRowsOf(b) ==
    { n \in 1 .. Len(store) : n > Len(store) - Len(proc[b].nonDuplicateMessages) }

\* Some row of the resubmission has the content of a row of the first run.
InsertedAgain ==
    \E n \in LastRowsOf(2) :
        \E m \in (1 .. Len(store)) \ LastRowsOf(2) : store[m].content = store[n].content

\* C14 (as stated): when the body of invocation 1 is submitted again as
\* invocation 2, no row of invocation 2 has the content of a row invocation 1
\* wrote, whatever the threshold.
C14_NeverInsertedAgain ==
    Started(proc[2]) => ~InsertedAgain

\* C14 (amended): the same, for thresholds not above 1, the score of a vector
\* against itself.
C14_NotInsertedAgainUpToOne ==
    (Started(proc[2]) /\ Threshold(2) <= 1) => ~InsertedAgain

\* Invocation 1 wrote a row and then failed on an INSERT; the resubmission
\* dropped the message already stored, wrote the one that had failed, and
\* succeeded.
C14_Witness ==
    /\ Started(proc[2])
    /\ Succeeded(proc[2])
    /\ Threshold(2) = 1
    /\ proc[1].error = "insert"
    /\ Len(proc[1].nonDuplicateMessages) >= 1
    /\ Len(proc[2].nonDuplicateMessages) >= 1
    /\ \E k \in 1 .. Len(proc[2].log) :
          /\ proc[2].log[k].event = "Dropping similar"
          /\ \E m \in (1 .. Len(store)) \ LastRowsOf(2) :
                store[m].content = LoggedContent(2, proc[2].log[k])

\* ------------------------------------------------------------------ chunking

\* C15: the texts of the env.AI.run calls of a successful batch are the
\* contents of uniqueMessages cut, in order, into ceil(u / embeddingBatchSize)
\* chunks of at most embeddingBatchSize (no call when u = 0); and the vector a
\* message is queried and stored with is the one returned for its content.
C15_ChunksAndPairing ==
    \A b \in Batches :
        Started(proc[b]) =>
            LET p == proc[b]
                u == Len(p.uniqueMessages)
            IN /\ Succeeded(p) =>
                    /\ Len(p.aiCalls) = (u + embeddingBatchSize - 1) \div embeddingBatchSize
                    /\ \A k \in 1 .. Len(p.aiCalls) :
                          /\ Len(p.aiCalls[k]) \in 1 .. embeddingBatchSize
                          /\ p.aiCalls[k] =
                                 ContentsOf(SubSeq(p.uniqueMessages,
                                                   (k - 1) * embeddingBatchSize + 1,
                                                   Min(k * embeddingBatchSize, u)))
                    /\ Flatten(p.aiCalls) = ContentsOf(p.uniqueMessages)
               /\ p.pc = "query" =>
                    p.inflight.embedding = model[p.uniqueMessages[p.i + p.j + 1].content]
               /\ p.pc = "insert" =>
                    p.inflight.row.embedding = model[p.uniqueMessages[p.i + p.j + 1].content]
               /\ \A n \in RowsOf(b) : store[n].embedding = model[store[n].content]

\* A successful batch of three distinct contents made two calls, and the
\* message of the second chunk was written.
C15_Witness ==
    \E b \in Batches :
        /\ Succeeded(proc[b])
        /\ Len(proc[b].uniqueMessages) = 3
        /\ Len(proc[b].aiCalls) = 2
        /\ \E n \in RowsOf(b) : store[n].message_id = proc[b].uniqueMessages[3].message_id
        /\ model["a"] # model["A"]

\* ------------------------------------------------------------------ serialisation

Accepts(log) == Cardinality({ k \in 1 .. Len(log) : log[k].event = "Inserting" })

\* The operation an invocation waits for at each await.
AwaitedOp(pc) ==
    CASE pc = "connect" -> "connect"
      [] pc = "embed" -> "AI.run"
      [] pc = "query" -> "query"
      [] pc = "insert" -> "insert"
      [] pc = "end" -> "end"
      [] OTHER -> "none"

\* C16: a batch waits for one operation at a time, and issues each in order:
\* when the query of the n-th message is outstanding, the n - 1 messages before
\* it have been answered and every accepted one among them has its row in the
\* table; when an INSERT is outstanding it is the one of the message just
\* accepted; when the env.AI.run call of a chunk is outstanding, every message
\* of the chunks before it has been answered and, if accepted, written.
C16_OneOperationAtATime ==
    \A b \in Batches :
        Started(proc[b]) =>
            LET p == proc[b]
                n == p.i + p.j
            IN /\ p.inflight.op = AwaitedOp(p.pc)
               /\ LogFollowsUnique(b)
               /\ p.pc = "embed" =>
                    /\ Len(p.log) = p.i
                    /\ p.i = (Len(p.aiCalls) - 1) * embeddingBatchSize
                    /\ Cardinality(RowsOf(b)) = Accepts(p.log)
               /\ p.pc = "query" =>
                    /\ Len(p.log) = n
                    /\ Cardinality(RowsOf(b)) = Accepts(p.log)
               /\ p.pc = "insert" =>
                    /\ Len(p.log) = n + 1
                    /\ p.log[n + 1].event = "Inserting"
                    /\ Cardinality(RowsOf(b)) = Accepts(p.log) - 1
               /\ \A m \in RowsOf(b) :
                     \E k \in 1 .. Len(p.log) :
                         /\ p.log[k].event = "Inserting"
                         /\ p.log[k].message_id = store[m].message_id

\* The call for the second chunk is outstanding after the first chunk had one
\* message written and one dropped.
C16_Witness ==
    \E b \in Batches :
        /\ Started(proc[b])
        /\ proc[b].pc = "embed"
        /\ proc[b].i > 0
        /\ RowsOf(b) # {}
        /\ Rejections(proc[b].log) >= 1

\* ------------------------------------------------------------------ the table only grows

\* The row an ACCEPT of the current message of invocation b is to create.
AcceptedRow(b) ==
    LET p == proc[b]
        message == p.uniqueMessages[p.i + p.j + 1]
    IN [job_id |-> p.data.job_id, message_id |-> message.message_id,
        topic |-> p.data.topic, industry |-> p.data.industry,
        subindustry |-> p.data.subindustry, content |-> message.content,
        embedding |-> model[message.content],
        similarity_search_score |-> p.similarityScore,
        platform_name |-> message.platform_name]

\* Invocation b completes an ACCEPT in this step: one row more, the expected one.
AcceptStep(b) ==
    /\ proc[b].pc = "insert"
    /\ proc[b].similarityScore < Threshold(b)
    /\ store' = Append(store, AcceptedRow(b))
    /\ Len(proc'[b].nonDuplicateMessages) = Len(proc[b].nonDuplicateMessages) + 1

Pushes(b) ==
    /\ Started(proc[b])
    /\ Started(proc'[b])
    /\ Len(proc'[b].nonDuplicateMessages) > Len(proc[b].nonDuplicateMessages)

GrownByInserted ==
    \A b \in Batches :
        Succeeded(proc[b]) =>
            Cardinality({ n \in 1 .. Len(store) : store[n].message_id # 0 })
                = proc[b].response.body.data.stats.inserted

\* C17: a step changes the table only by appending the one row of the message
\* an invocation has just accepted (its fields, the request's job_id, topic,
\* industry and subindustry, its embedding and its score, below the threshold);
\* a message is pushed to nonDuplicateMessages only in such a step; every other
\* step, a REJECT or the exact-duplicate filter among them, leaves the table as
\* it is; and a successful batch has added stats.inserted rows.
C17_AppendOnly ==
    /\ []GrownByInserted
    /\ [][ /\ store' # store => \E b \in Batches : AcceptStep(b)
           /\ \A b \in Batches : Pushes(b) => AcceptStep(b)
           /\ \A n \in 1 .. Len(store) : Len(store') >= n /\ store'[n] = store[n] ]_vars

\* A successful batch wrote a row after a row that was there before, and
\* rejected another message.
C17_Witness ==
    \E b \in Batches :
        /\ Succeeded(proc[b])
        /\ proc[b].stats.inserted >= 1
        /\ Rejections(proc[b].log) >= 1
        /\ Len(store) > proc[b].stats.inserted
        /\ store[1].message_id = 0

\* ------------------------------------------------------------------ two invocations at once

\* The batches of two callers at work at the same time: one or two messages,
\* for one of two jobs, filtered by topic and subindustry or by job_id.
ConcurrentRequests ==
    { Http(Bearer(DEDUP_AUTH_TOKEN), "POST", Json(d)) :
        d \in { With(g, "job_id", job) :
                  job \in {"j1", "j2"},
                  g \in { Body("s1", 1, msgs) :
                            msgs \in { <<Message(1, "a")>>,
                                       <<Message(1, "A")>>,
                                       <<Message(1, "a"), Message(2, "A")>>,
                                       <<Message(1, "b"), Message(2, "a")>> } }
                        \cup
                        { With(Body("s1", 1, msgs), "filter_by", <<"job_id">>) :
                            msgs \in { <<Message(1, "a")>>,
                                       <<Message(1, "a"), Message(2, "A")>> } } } }

SubmitConcurrent(b) ==
    /\ proc[b].pc = "idle"
    /\ \E request \in ConcurrentRequests : Set(b, Handle(request))
    /\ UNCHANGED <<store, model>>

NextConcurrent == \E b \in Batches : SubmitConcurrent(b) \/ Run(b)

\* Both invocations may be called at any time.
InitConcurrent ==
    /\ store = <<>>
    /\ model \in Models
    /\ proc = [b \in Batches |-> Idle]

SpecConcurrent == InitConcurrent /\ [][NextConcurrent]_vars

\* C18: nothing makes one invocation wait for another: a similarity query that
\* is outstanding can be answered, and an INSERT that is outstanding can be
\* carried out, whatever the other invocation is doing, in particular between
\* the other's query and insert.
C18_NoCoordination ==
    \A b \in Batches :
        /\ proc[b].pc = "query" => ENABLED Query(b)
        /\ proc[b].pc = "insert" => ENABLED Insert(b)

\* Both invocations succeeded with the same threshold and the same filter, and
\* the table holds a row of each; the rows are as similar as the threshold,
\* and each was accepted at score 0: neither query saw the other's row, so
\* both queries came before either insert.
C18_Witness ==
    /\ Succeeded(proc[1])
    /\ Succeeded(proc[2])
    /\ Threshold(1) = Threshold(2)
    /\ proc[1].filter_by = proc[2].filter_by
    /\ WhereConditions(proc[1].filter_by, proc[1].data)
           = WhereConditions(proc[2].filter_by, proc[2].data)
    /\ Len(proc[1].uniqueMessages) = 1
    /\ Len(proc[2].uniqueMessages) = 1
    /\ Len(store) = 2
    /\ store[1].similarity_search_score = 0
    /\ store[2].similarity_search_score = 0
    /\ Satisfies(store[1], WhereConditions(proc[1].filter_by, proc[1].data))
    /\ Satisfies(store[2], WhereConditions(proc[1].filter_by, proc[1].data))
    /\ SimilarityScore(store[1].embedding, store[2].embedding) >= Threshold(1)

\* The messages invocation b has accepted so far, the one whose INSERT is
\* outstanding included, in order.
AcceptedContents(b) ==
    LET log == proc[b].log
        lines == SelectSeq(log, LAMBDA line : line.event = "Inserting")
    IN [k \in 1 .. Len(lines) |-> LoggedContent(b, lines[k])]

\* C19: with two invocations interleaved, no invocation accepts two messages
\* as similar as its own threshold; the row it sends and the rows the table
\* holds for its accepted messages carry its own job_id, topic, industry and
\* subindustry and satisfy its own WHERE conditions; and no step removes or
\* changes a row of the table.
C19_WithinBatchUnderConcurrency ==
    /\ [](\A b \in Batches :
            Started(proc[b]) =>
                LET accepted == AcceptedContents(b)
                    where == WhereConditions(proc[b].filter_by, proc[b].data)
                IN /\ \A m, n \in 1 .. Len(accepted) :
                        m < n => Similarity(accepted[m], accepted[n]) < Threshold(b)
                   /\ proc[b].pc = "insert" => Satisfies(proc[b].inflight.row, where)
                   /\ \A k \in 1 .. Len(proc[b].nonDuplicateMessages) :
                        \E n \in 1 .. Len(store) :
                            /\ store[n].content = proc[b].nonDuplicateMessages[k].content
                            /\ store[n].job_id = proc[b].data.job_id
                            /\ store[n].topic = proc[b].data.topic
                            /\ store[n].industry = proc[b].data.industry
                            /\ store[n].subindustry = proc[b].data.subindustry
                            /\ Satisfies(store[n], where))
    /\ [][\A n \in 1 .. Len(store) : Len(store') >= n /\ store'[n] = store[n]]_vars

\* Two invocations for different jobs, filtering by topic and subindustry: the
\* first row is of one, accepted before the other's query was answered; the
\* second row is of the other, written at score 0 after it; and the first
\* invocation rejected its second message for its own row.
C19_Witness ==
    \E b \in Batches : \E a \in Batches \ {b} :
        /\ Succeeded(proc[a])
        /\ Succeeded(proc[b])
        /\ proc[a].data.job_id # proc[b].data.job_id
        /\ Len(store) = 2
        /\ store[1].job_id = proc[b].data.job_id
        /\ store[2].job_id = proc[a].data.job_id
        /\ store[2].similarity_search_score = 0
        /\ SimilarityScore(store[1].embedding, store[2].embedding) >= Threshold(a)
        /\ Len(proc[b].log) = 2
        /\ proc[b].log[1].event = "Inserting"
        /\ proc[b].log[2].event = "Dropping similar"

\* ------------------------------------------------------------------ the checks of fetch

BearerOk(request) == request.authorization = Bearer(DEDUP_AUTH_TOKEN)

MethodOk(request) == request.method = "POST"

JsonOk(request) == request.body.valid

NonEmpty(data, f) == f \in DOMAIN data /\ data[f] # ""

FieldsOk(request) ==
    LET data == request.body.data IN
    /\ NonEmpty(data, "table_name")
    /\ NonEmpty(data, "job_id")
    /\ NonEmpty(data, "topic")
    /\ NonEmpty(data, "industry")
    /\ "similarity_search_score_threshold" \in DOMAIN data
    /\ "messages" \in DOMAIN data
    /\ data.messages # NotAnArray

\* The status of the first check the request fails, 200 when it fails none.
FirstFailure(request) ==
    IF ~BearerOk(request) THEN 401
    ELSE IF ~MethodOk(request) THEN 405
    ELSE IF ~JsonOk(request) THEN 400
    ELSE IF ~FieldsOk(request) THEN 400
    ELSE 200

\* No connection, provider call, query or insert was made for invocation b.
NoExternalCall(b) ==
    /\ ~Started(proc[b])
    /\ store \in InitStores

\* C20: processBatch, and with it every external call, is reached only by a
\* request that passes the bearer-token check, the POST check, JSON parsing and
\* the required-field check; a request that fails one is answered with the
\* status of the first check it fails (401, 405, 400, 400), an error body, no
\* external call and an unchanged table.
C20_ChecksBeforeCalls ==
    \A b \in Batches :
        "request" \in DOMAIN proc[b] =>
            LET request == proc[b].request IN
            IF FirstFailure(request) = 200
            THEN Started(proc[b])
            ELSE /\ NoExternalCall(b)
                 /\ proc[b].pc = "done"
                 /\ proc[b].response.status = FirstFailure(request)
                 /\ proc[b].response.body.status = "error"

\* ------------------------------------------------------------------ termination

\* dbClient.end() rejected and `finally` rethrows: the failure of end() replaces
\* the outcome of the try block.
EndFail_Rethrow(b) ==
    /\ proc[b].pc = "end"
    /\ Set(b, With(OnEnd([proc[b] EXCEPT !.error = "end"]), "endFailed", TRUE))
    /\ UNCHANGED <<store, model>>

\* dbClient.end() rejects: the inner catch logs "ERROR: Failed to close database
\* connection" and the outcome of the try block stands.
EndFail(b) ==
    /\ proc[b].pc = "end"
    /\ Set(b, With(OnEnd(proc[b]), "endFailed", TRUE))
    /\ UNCHANGED <<store, model>>

NextLive == \E b \in Batches : Submit(b) \/ Run(b) \/ EndFail(b)

\* Each external call eventually returns or fails: the completion of the
\* operation an invocation waits for is eventually delivered.
SpecLive ==
    /\ InitResubmit
    /\ [][NextLive]_vars
    /\ \A b \in Batches : WF_vars(Run(b) \/ EndFail(b))

\* end() is called on leaving the try block and not before, once; the caller
\* has the answer only after it settled; the answer is the success payload
\* when the try block returned and the error response when it threw.
EndedOnce(b) ==
    LET p == proc[b] IN
    /\ p.pc \in {"connect", "embed", "query", "insert"} =>
          p.endCalls = 0 /\ p.response = Null /\ p.error = "none"
    /\ p.pc = "end" =>
          p.endCalls = 1 /\ p.response = Null /\ p.inflight.op = "end"
    /\ p.pc = "done" =>
          /\ p.endCalls = 1
          /\ p.error \in {"none", "connect", "provider", "TypeError", "query", "insert"}
          /\ IF p.error = "none"
             THEN p.response = [status |-> 200, body |-> Stringify(p.result)]
             ELSE /\ p.result = Null
                  /\ p.response = ErrorResponse(500, "Internal server error")

\* C21: every invocation of processBatch whose external calls all complete
\* reaches its answer, a success or a failure and not both; on each way out
\* (return, connect, provider, query or insert failure) end() has been called
\* exactly once before the answer; and a rejected end() leaves the answer as
\* the try block made it.
C21_EndsOnceAndTerminates ==
    /\ [](\A b \in Batches : Started(proc[b]) => EndedOnce(b))
    /\ \A b \in Batches : Started(proc[b]) ~> proc[b].pc = "done"

\* A batch wrote a row and returned; end() then rejected, and fetch still
\* answered 200 with the payload.
C21_Witness ==
    \E b \in Batches :
        /\ Succeeded(proc[b])
        /\ "endFailed" \in DOMAIN proc[b]
        /\ proc[b].endCalls = 1
        /\ proc[b].stats.inserted >= 1

====
